---- MODULE Spec2Model ----
(***************************************************************************)
(* A model of data_curation/downloading/imgur_downloader.py: the URL       *)
(* classifier, the extension resolver, the direct fetcher                  *)
(* (download_imgur_image) with its retrying transport, the post resolver   *)
(* and the album resolver.                                                 *)
(*                                                                         *)
(* Strings are sequences of tokens.  A token is either one punctuation     *)
(* character or an alphanumeric word that is never split, so that the      *)
(* substring tests and the regular expressions of the source can be        *)
(* evaluated on the token sequence exactly as on the characters.           *)
(***************************************************************************)
EXTENDS Integers, Sequences, FiniteSets, TLC

\* ---------------------------------------------------------------- bounds
\* Number of pieces an enumerated URL is concatenated from.
MaxPieces == 3
\* Number of top-level calls made one after the other on the same filesystem.
MaxCalls == 2

\* ----------------------------------------------------------------- state
\* in_url, out_class, out_ext: the argument and the results of the pure
\*     functions (clasify_url, find_image_url_extension).
\* fs: the filesystem, a function from the paths that exist to their bytes.
\* pr: for each caller, the frame of its call in progress: the arguments,
\*     the locals of download_imgur_image, the position, what was returned
\*     or raised, and counters of what the call did.
\* ncalls: the number of calls started.
VARIABLES in_url, out_class, out_ext, fs, pr, ncalls

vars == <<in_url, out_class, out_ext, fs, pr, ncalls>>

pureVars == <<in_url, out_class, out_ext>>

\* ---------------------------------------------------------------- strings
Words == {"https", "i", "imgur", "com", "a", "gallery", "x", "png", "jpeg",
          "jpg", "b", "unrecovered", "imgur_placeholder", "image", "text",
          "html"}

IsWord(t) == t \in Words

Contains(s, sub) ==
    \E i \in 0..(Len(s) - Len(sub)) : SubSeq(s, i + 1, i + Len(sub)) = sub

\* Python's None, passed where a url string is expected.
Null == <<"<None>">>
Sentinel == <<"unrecovered">>
Scheme == <<"https", ":", "/", "/">>

RECURSIVE Concat(_)
Concat(ss) == IF ss = <<>> THEN <<>> ELSE Head(ss) \o Concat(Tail(ss))

\* ------------------------------------------------------------ clasify_url
\* The first two tests in the other order.
clasify_url_album_first(imgur_link) ==
    IF Contains(imgur_link, <<"/", "a", "/">>)
         \/ Contains(imgur_link, <<"/", "gallery", "/">>) THEN "album"
    ELSE IF Contains(imgur_link, <<"i", ".", "imgur", ".", "com">>) THEN "image"
    ELSE IF Contains(imgur_link, <<"imgur", ".", "com">>) THEN "post"
    ELSE "-1"

clasify_url(imgur_link) ==
    IF Contains(imgur_link, <<"i", ".", "imgur", ".", "com">>) THEN "image"
    ELSE IF Contains(imgur_link, <<"/", "a", "/">>)
              \/ Contains(imgur_link, <<"/", "gallery", "/">>) THEN "album"
    ELSE IF Contains(imgur_link, <<"imgur", ".", "com">>) THEN "post"
    ELSE "-1"

\* ----------------------------------------------- find_image_url_extension
\* The last index of the run of word tokens that starts right after index i.
RunEnd(u, i) ==
    CHOOSE j \in i..Len(u) :
        /\ \A k \in (i + 1)..j : IsWord(u[k])
        /\ (j = Len(u) \/ ~IsWord(u[j + 1]))

\* r'\.([a-zA-Z0-9]+)(?:\?.*)?$' matches at index i: a dot, a non-empty
\* alphanumeric run, then the end of the string or a query string.
ExtMatchAt(u, i) ==
    /\ u[i] = "."
    /\ RunEnd(u, i) > i
    /\ (RunEnd(u, i) = Len(u) \/ u[RunEnd(u, i) + 1] = "?")

ExtMatches(u) == {i \in 1..Len(u) : ExtMatchAt(u, i)}

Min(S) == CHOOSE m \in S : \A n \in S : m <= n

find_image_url_extension(imgur_url) ==
    IF ExtMatches(imgur_url) # {}
    THEN LET i == Min(ExtMatches(imgur_url))      \* re.search: leftmost match
         IN  SubSeq(imgur_url, i + 1, RunEnd(imgur_url, i))
    ELSE <<"jpeg">>

\* ------------------------------------------------- pure-function harness
Pieces == { Scheme, <<"i", ".">>, <<"imgur", ".", "com">>, <<"/", "a", "/">>,
            <<"/", "gallery", "/">>, <<"/", "x">>, <<".", "png">>,
            <<"?", "x">> }

PieceSeqs == UNION {[1..n -> Pieces] : n \in 0..MaxPieces}

Urls == {Concat(ps) : ps \in PieceSeqs}

NotComputed == <<"<not computed>">>

PureInit ==
    /\ in_url \in Urls
    /\ out_class = "<not computed>"
    /\ out_ext = NotComputed

Classify ==
    /\ out_class = "<not computed>"
    /\ out_class' = clasify_url(in_url)
    /\ UNCHANGED <<in_url, out_ext, fs, pr, ncalls>>

Extension ==
    /\ out_ext = NotComputed
    /\ out_ext' = find_image_url_extension(in_url)
    /\ UNCHANGED <<in_url, out_class, fs, pr, ncalls>>


\* ------------------------------------------------------------- statuses
NotAttempted == <<"Not Attempted">>
Success == <<"success">>
NotAnImage == <<"Failure: ", "Not an image">>
PlaceholderDownloaded == <<"Failure: ", "Placeholder image downloaded">>
UrlNotRecovered == <<"URL wasnt recovered">>
FailedToConvert == <<"failed_to_convert_to_image_url">>
\* 'Failure: ' + str(exception)
Failure(msg) == <<"Failure: ", msg>>
\* f"Error {response.status_code}"
ErrorStatus(code) == <<"Error ", ToString(code)>>
NoResult == <<>>

\* ----------------------------------------------------------- filesystem
\* A file's bytes.  "phJpg" is the bundled placeholder asset; "phPng" holds
\* the same picture in other bytes; "garbage" and the empty file do not decode.
Bodies == {"imgA", "phPng", "garbage"}

Decodable(c) == c \in {"imgA", "phJpg", "phPng"}

\* list(Image.open(f).getdata()): the pixel sequence of decodable bytes.
Pixels(c) == IF c = "imgA" THEN <<10, 20>> ELSE <<0, 0>>

download_folder == <<"dl">>

\* A file name that leaves the identifier out.
FilePathNoId(folder, image_id, extension) == folder \o <<"/">> \o extension

\* os.path.join(download_folder, f"{image_id}.{extension}")
FilePath(folder, image_id, extension) ==
    folder \o <<"/">> \o image_id \o <<".">> \o extension

\* 'imgur_placeholder.jpg', relative to the working directory.
PlaceholderPath == <<"imgur_placeholder", ".", "jpg">>

Exists(f, path) == path \in DOMAIN f
WriteFile(f, path, c) == (path :> c) @@ f
RemoveFile(f, path) == [q \in DOMAIN f \ {path} |-> f[q]]

\* ------------------------------------------------------------ transport
\* Retry(total=3, status_forcelist=[429, 500, 502, 503, 504], backoff_factor=2)
RetryTotal == 3
status_forcelist == {429, 500, 502, 503, 504}

\* What one attempt of the transport can meet: a response with a status, or
\* a connection error.
Codes == {200, 404} \cup status_forcelist
Outcomes == Codes \cup {0}
ConnError == 0

CTypes == { <<"image", "/", "png">>, <<"text", "/", "html">>, <<>> }

NoResponse ==
    [error |-> "", status_code |-> 0, ctype |-> <<>>, body |-> "", readable |-> TRUE]

\* requests prepares the request before anything is sent: a url without a
\* scheme (None, 'unrecovered') raises MissingSchema.
HasScheme(url) == Len(url) >= Len(Scheme) /\ SubSeq(url, 1, Len(Scheme)) = Scheme

\* ------------------------------------------------------------ processes
Procs == {1, 2}

NoPath == <<>>
NoPage == [has_meta |-> FALSE, has_content |-> FALSE, content |-> <<>>]

IdleProc ==
    [op |-> "idle", pc |-> "idle", arg_url |-> <<>>, url |-> <<>>,
     image_id |-> <<>>, status |-> NotAttempted, response |-> NoResponse,
     total |-> 0, sends |-> 0, getCalls |-> 0, fetches |-> <<>>,
     filepath |-> NoPath, downloaded_image |-> <<>>, placeholder_image |-> <<>>,
     result |-> NoResult, raised |-> "", written |-> {}, removed |-> {},
     page |-> NoPage, pageGets |-> 0, page_status |-> 0, caught |-> ""]

\* download_imgur_image is entered: lines 72-82.
Entered(frame, url, image_id) ==
    [frame EXCEPT !.pc = "get", !.url = url, !.image_id = image_id,
                  !.status = NotAttempted, !.total = RetryTotal,
                  !.fetches = Append(frame.fetches, url)]

\* The except clause of download_imgur_image (lines 108-109).
Caught(frame, msg) ==
    [frame EXCEPT !.status = Failure(msg), !.caught = msg, !.pc = "after_try"]


\* ------------------------------------------- download_imgur_image, steps
\* Line 85: http.get(url, ...) is called.  The request is prepared first; a
\* url without a scheme raises before the transport sends anything.
Get(p) ==
    /\ pr[p].pc = "get"
    /\ LET f == [pr[p] EXCEPT !.getCalls = @ + 1]
       IN  pr' = [pr EXCEPT ![p] =
                    IF HasScheme(f.url)
                    THEN [f EXCEPT !.pc = "send"]
                    ELSE Caught([f EXCEPT !.response.error = "MissingSchema"],
                                "MissingSchema")]
    /\ UNCHANGED <<fs, ncalls, pureVars>>

\* urllib3's Retry.increment after a connection error or a response whose
\* status is in status_forcelist: total is decremented, and the retries are
\* exhausted when it falls below zero.
Exhausted(total) == total - 1 < 0

\* One attempt of the retrying transport (HTTPAdapter.send under line 85).
\* A connection error or a status of status_forcelist is retried while
\* retries are left; with none left the transport raises (raise_on_status is
\* left at its default), and the except clause of line 108 catches it.
\* Any other status is the response line 85 returns.
Send(p, outcomes, ctypes) ==
    /\ pr[p].pc = "send"
    /\ \E o \in outcomes :
         LET f == [pr[p] EXCEPT !.sends = @ + 1]
         IN  \/ /\ o = ConnError \/ o \in status_forcelist
                /\ ~Exhausted(f.total)
                /\ pr' = [pr EXCEPT ![p] = [f EXCEPT !.total = @ - 1]]
             \/ /\ o = ConnError
                /\ Exhausted(f.total)
                /\ pr' = [pr EXCEPT ![p] =
                            Caught([f EXCEPT !.response.error = "ConnectionError",
                                             !.total = @ - 1],
                                   "ConnectionError")]
             \/ /\ o \in status_forcelist
                /\ Exhausted(f.total)
                /\ pr' = [pr EXCEPT ![p] =
                            Caught([f EXCEPT !.response.error = "RetryError",
                                             !.response.status_code = o,
                                             !.total = @ - 1],
                                   "RetryError")]
             \/ /\ o \in Codes \ status_forcelist
                /\ o # 200
                /\ pr' = [pr EXCEPT ![p] =
                            [f EXCEPT !.response.status_code = o, !.pc = "check"]]
             \/ /\ o = 200
                /\ \E ct \in ctypes, b \in Bodies, r \in BOOLEAN :
                     pr' = [pr EXCEPT ![p] =
                              [f EXCEPT !.response =
                                          [error |-> "", status_code |-> 200,
                                           ctype |-> ct, body |-> b,
                                           readable |-> r],
                                        !.pc = "check"]]
    /\ UNCHANGED <<fs, ncalls, pureVars>>

\* Lines 86-92 and 104-107: the response is examined.
Check(p) ==
    /\ pr[p].pc = "check"
    /\ LET f == pr[p]
       IN  pr' = [pr EXCEPT ![p] =
             IF f.response.status_code = 200
             THEN IF Contains(f.response.ctype, <<"image">>)
                  THEN [f EXCEPT !.status = Success,
                                 !.filepath =
                                    FilePath(download_folder, f.image_id,
                                             find_image_url_extension(f.url)),
                                 !.pc = "open"]
                  ELSE [f EXCEPT !.status = NotAnImage, !.pc = "after_try"]
             ELSE [f EXCEPT !.status = ErrorStatus(f.response.status_code),
                            !.pc = "after_try"]]
    /\ UNCHANGED <<fs, ncalls, pureVars>>

\* Line 94: open(filepath, 'wb') creates or truncates the file.
OpenFile(p) ==
    /\ pr[p].pc = "open"
    /\ fs' = WriteFile(fs, pr[p].filepath, "")
    /\ pr' = [pr EXCEPT ![p].written = @ \cup {pr[p].filepath}, ![p].pc = "write"]
    /\ UNCHANGED <<ncalls, pureVars>>

\* Line 95: response.content reads the streamed body, which can fail after
\* the file was created; otherwise the body is written and the file closed.
WriteBody(p) ==
    /\ pr[p].pc = "write"
    /\ IF pr[p].response.readable
       THEN /\ fs' = WriteFile(fs, pr[p].filepath, pr[p].response.body)
            /\ pr' = [pr EXCEPT ![p].pc = "decode"]
       ELSE /\ fs' = fs
            /\ pr' = [pr EXCEPT ![p] = Caught(pr[p], "ChunkedEncodingError")]
    /\ UNCHANGED <<ncalls, pureVars>>

\* Line 98: Image.open(filepath) of the file just written.
DecodeDownloaded(p) ==
    /\ pr[p].pc = "decode"
    /\ LET f == pr[p]
       IN  pr' = [pr EXCEPT ![p] =
             IF ~Exists(fs, f.filepath) THEN Caught(f, "FileNotFoundError")
             ELSE IF ~Decodable(fs[f.filepath])
                  THEN Caught(f, "UnidentifiedImageError")
             ELSE [f EXCEPT !.downloaded_image = Pixels(fs[f.filepath]),
                            !.pc = "placeholder"]]
    /\ UNCHANGED <<fs, ncalls, pureVars>>

\* Line 99: Image.open('imgur_placeholder.jpg').
OpenPlaceholder(p) ==
    /\ pr[p].pc = "placeholder"
    /\ LET f == pr[p]
       IN  pr' = [pr EXCEPT ![p] =
             IF ~Exists(fs, PlaceholderPath) THEN Caught(f, "FileNotFoundError")
             ELSE IF ~Decodable(fs[PlaceholderPath])
                  THEN Caught(f, "UnidentifiedImageError")
             ELSE [f EXCEPT !.placeholder_image = Pixels(fs[PlaceholderPath]),
                            !.pc = "compare"]]
    /\ UNCHANGED <<fs, ncalls, pureVars>>

\* A comparison of the two files' bytes instead of their pixels.
CompareBytes(p) ==
    /\ pr[p].pc = "compare"
    /\ LET f == pr[p]
       IN  IF Exists(fs, f.filepath) /\ fs[f.filepath] = fs[PlaceholderPath]
           THEN /\ fs' = RemoveFile(fs, f.filepath)
                /\ pr' = [pr EXCEPT ![p] =
                            [f EXCEPT !.status = PlaceholderDownloaded,
                                      !.removed = @ \cup {f.filepath},
                                      !.pc = "after_try"]]
           ELSE /\ fs' = fs
                /\ pr' = [pr EXCEPT ![p].pc = "after_try"]
    /\ UNCHANGED <<ncalls, pureVars>>

\* Lines 100-102: the pixel comparison, and the removal of a placeholder.
Compare(p) ==
    /\ pr[p].pc = "compare"
    /\ LET f == pr[p]
       IN  IF f.downloaded_image = f.placeholder_image
           THEN IF Exists(fs, f.filepath)
                THEN /\ fs' = RemoveFile(fs, f.filepath)
                     /\ pr' = [pr EXCEPT ![p] =
                                 [f EXCEPT !.status = PlaceholderDownloaded,
                                           !.removed = @ \cup {f.filepath},
                                           !.pc = "after_try"]]
                ELSE /\ fs' = fs
                     /\ pr' = [pr EXCEPT ![p] = Caught(f, "FileNotFoundError")]
           ELSE /\ fs' = fs
                /\ pr' = [pr EXCEPT ![p].pc = "after_try"]
    /\ UNCHANGED <<ncalls, pureVars>>

\* Lines 111-115, and the return of the resolver that called the fetcher
\* (lines 134 and 186 return the fetcher's status).
Finish(p) ==
    /\ pr[p].pc = "after_try"
    /\ LET st == IF pr[p].url = Sentinel THEN UrlNotRecovered ELSE pr[p].status
       IN  pr' = [pr EXCEPT ![p].status = st, ![p].result = st, ![p].pc = "done"]
    /\ UNCHANGED <<fs, ncalls, pureVars>>


\* ------------------------------------------------------------- the calls
DirectUrl == Scheme \o <<"i", ".", "imgur", ".", "com", "/", "x">>

ImageUrls == { DirectUrl \o <<".", "png">>, DirectUrl, Sentinel, Null }

Ids == { <<"a">>, <<"a", ".", "png">> }

CanCall(p) == pr[p].pc \in {"idle", "done"} /\ ncalls < MaxCalls

Called(op, url, image_id) ==
    [IdleProc EXCEPT !.op = op, !.arg_url = url, !.image_id = image_id]

\* download_imgur_image called by the pipeline.
CallImage(p) ==
    /\ CanCall(p)
    /\ \E url \in ImageUrls, image_id \in Ids :
         pr' = [pr EXCEPT ![p] = Entered(Called("image", url, image_id), url, image_id)]
    /\ ncalls' = ncalls + 1
    /\ UNCHANGED <<fs, pureVars>>

\* ------------------------------------------------------ download_imgur_post
PostPattern == <<":", "/", "/", "imgur", ".">>
PostReplacement == <<":", "/", "/", "i", ".", "imgur", ".">>

\* The indices at which sub occurs in s.
Positions(s, sub) ==
    {i \in 1..(Len(s) - Len(sub) + 1) : SubSeq(s, i, i + Len(sub) - 1) = sub}

\* re.sub(pattern, repl, s) without count: every occurrence is replaced
\* (the occurrences of the pattern cannot overlap).
RECURSIVE SubAll(_, _, _)
SubAll(s, pat, repl) ==
    IF Positions(s, pat) = {} THEN s
    ELSE LET i == Min(Positions(s, pat))
         IN  SubSeq(s, 1, i - 1) \o repl
               \o SubAll(SubSeq(s, i + Len(pat), Len(s)), pat, repl)

\* re.sub(pattern, repl, s, count=1): the leftmost occurrence is replaced.
SubFirst(s, pat, repl) ==
    IF Positions(s, pat) = {} THEN s
    ELSE LET i == Min(Positions(s, pat))
         IN  SubSeq(s, 1, i - 1) \o repl \o SubSeq(s, i + Len(pat), Len(s))

PostUrl == Scheme \o <<"imgur", ".", "com", "/", "x">>

PostUrls == { PostUrl,
              PostUrl \o <<":", "/", "/", "imgur", ".", "com">>,
              DirectUrl,
              <<"imgur", ".", "com", "/", "x">> }

\* Lines 130-135.
CallPost(p) ==
    /\ CanCall(p)
    /\ \E url \in PostUrls, image_id \in Ids :
         LET f == Called("post", url, image_id)
         IN  pr' = [pr EXCEPT ![p] =
               IF Positions(url, PostPattern) # {}
               THEN Entered(f, SubFirst(url, PostPattern, PostReplacement)
                                 \o <<".", "jpeg">>, image_id)
               ELSE [f EXCEPT !.result = FailedToConvert, !.pc = "done"]]
    /\ ncalls' = ncalls + 1
    /\ UNCHANGED <<fs, pureVars>>

\* ----------------------------------- get_imgur_album_info, download_imgur_album
AlbumUrl == Scheme \o <<"imgur", ".", "com", "/", "a", "/", "x">>

AlbumUrls == { AlbumUrl, <<"imgur", ".", "com", "/", "a", "/", "x">> }

\* The album page as BeautifulSoup sees it: whether a meta element with
\* property og:image is there, whether it has a content attribute, and the
\* attribute's value.
Pages ==
    { NoPage,
      [has_meta |-> TRUE, has_content |-> FALSE, content |-> <<>>] }
    \cup { [has_meta |-> TRUE, has_content |-> TRUE, content |-> c] :
             c \in { <<>>, <<"?", "x">>, DirectUrl \o <<".", "png">>,
                     DirectUrl \o <<".", "png", "?", "x">> } }

\* s.split('?')[0]
SplitQuery(s) ==
    IF Positions(s, <<"?">>) = {} THEN s
    ELSE SubSeq(s, 1, Min(Positions(s, <<"?">>)) - 1)

\* The initial value of image_url (line 151) returned for a failed page.
PageFailureValueUnrecovered == Sentinel

\* What get_imgur_album_info returns for a page status other than 200:
\* None (line 154).
PageFailureValue == Null

\* An exception leaves download_imgur_album: nothing is returned.
Propagated(frame, msg) == [frame EXCEPT !.raised = msg, !.pc = "done"]

\* The statuses the album page can answer with.
PageCodes == {200, 404, 503}

\* Line 184: download_imgur_album calls get_imgur_album_info.
CallAlbum(p) ==
    /\ CanCall(p)
    /\ \E url \in AlbumUrls, image_id \in Ids :
         pr' = [pr EXCEPT ![p] =
                  [Called("album", url, image_id) EXCEPT !.pc = "page_get"]]
    /\ ncalls' = ncalls + 1
    /\ UNCHANGED <<fs, pureVars>>

\* Lines 150-154: requests.get(album_url), one attempt, outside any try.
PageGet(p) ==
    /\ pr[p].pc = "page_get"
    /\ LET f == [pr[p] EXCEPT !.pageGets = @ + 1]
       IN  IF ~HasScheme(f.arg_url)
           THEN pr' = [pr EXCEPT ![p] = Propagated(f, "MissingSchema")]
           ELSE \E o \in PageCodes \cup {ConnError} :
                  \/ /\ o = ConnError
                     /\ pr' = [pr EXCEPT ![p] = Propagated(f, "ConnectionError")]
                  \/ /\ o \in PageCodes \ {200}
                     \* return None; line 185 passes it to the fetcher
                     /\ pr' = [pr EXCEPT ![p] =
                                 Entered([f EXCEPT !.page_status = o], PageFailureValue,
                                         f.image_id)]
                  \/ /\ o = 200
                     /\ \E pg \in Pages :
                          pr' = [pr EXCEPT ![p] =
                                   [f EXCEPT !.page = pg, !.page_status = 200,
                                             !.pc = "page_parse"]]
    /\ UNCHANGED <<fs, ncalls, pureVars>>

\* Lines 156-169, and line 185 with the value returned.
ParsePage(p) ==
    /\ pr[p].pc = "page_parse"
    /\ LET f == pr[p]
           image_url == SplitQuery(f.page.content)
       IN  pr' = [pr EXCEPT ![p] =
             IF ~f.page.has_meta THEN Entered(f, Sentinel, f.image_id)
             ELSE IF ~f.page.has_content
                  \* meta_tag.get('content', None) is None: None.split raises
                  THEN Propagated(f, "AttributeError")
             ELSE IF image_url = <<>> THEN Entered(f, Sentinel, f.image_id)
             ELSE Entered(f, image_url, f.image_id)]
    /\ UNCHANGED <<fs, ncalls, pureVars>>

\* -------------------------------------------------------- specifications
PureIdle ==
    /\ in_url = <<>>
    /\ out_class = "<not computed>"
    /\ out_ext = NotComputed

\* The placeholder asset is shipped beside the program; a run started from
\* another working directory does not find it.
InitFs == { <<>>, PlaceholderPath :> "phJpg" }

Init ==
    /\ PureIdle
    /\ fs \in InitFs
    /\ pr = [p \in Procs |-> IdleProc]
    /\ ncalls = 0

Step(p) ==
    \/ Get(p) \/ Send(p, Outcomes, CTypes) \/ Check(p) \/ OpenFile(p) \/ WriteBody(p)
    \/ DecodeDownloaded(p) \/ OpenPlaceholder(p) \/ Compare(p) \/ Finish(p)

\* One caller: the calls are made one after the other.
Next ==
    \/ CallImage(1) \/ CallPost(1) \/ CallAlbum(1)
    \/ PageGet(1) \/ ParsePage(1)
    \/ Step(1)

Spec == Init /\ [][Next]_vars

\* The pure functions applied to enumerated URLs.
InitPure ==
    /\ PureInit
    /\ fs = <<>>
    /\ pr = [p \in Procs |-> IdleProc]
    /\ ncalls = 0

NextPure == Classify \/ Extension

SpecPure == InitPure /\ [][NextPure]_vars


\* Two direct fetches running interleaved on one download folder, with
\* distinct identifiers.
ConcUrls == { DirectUrl \o <<".", "png">>, DirectUrl }

ConcOutcomes == {200, 404, 503}

ConcCTypes == { <<"image", "/", "png">>, <<"text", "/", "html">> }

InitConc ==
    /\ PureIdle
    /\ fs \in InitFs
    /\ \E u1 \in ConcUrls, u2 \in ConcUrls, i1 \in Ids, i2 \in Ids :
         /\ i1 = <<"a">> /\ i2 # i1
         /\ pr = (1 :> Entered(Called("image", u1, i1), u1, i1))
                 @@ (2 :> Entered(Called("image", u2, i2), u2, i2))
    /\ ncalls = 2

StepConc(p) ==
    \/ Get(p) \/ Send(p, ConcOutcomes, ConcCTypes) \/ Check(p) \/ OpenFile(p) \/ WriteBody(p)
    \/ DecodeDownloaded(p) \/ OpenPlaceholder(p) \/ Compare(p) \/ Finish(p)

NextConc == \E p \in Procs : StepConc(p)

SpecConc == InitConc /\ [][NextConc]_vars


\* ================================================================ claims
Done(p) == pr[p].pc = "done"

\* The fetcher ran in the call of process p.
Fetched(p) == pr[p].fetches # <<>>

\* <folder>/<identifier>.<extension_of(url)> of the fetch process p made.
Target(p) ==
    FilePath(download_folder, pr[p].image_id, find_image_url_extension(pr[p].url))

AlbumMarker(u) ==
    Contains(u, <<"/", "a", "/">>) \/ Contains(u, <<"/", "gallery", "/">>)

CdnMarker(u) == Contains(u, <<"i", ".", "imgur", ".", "com">>)

\* C1: whenever a call of the direct fetcher returns a status other than
\* 'success', no file exists at <folder>/<identifier>.<extension>.
C1_NoFileUnlessSuccess ==
    \A p \in Procs :
        (Done(p) /\ Fetched(p) /\ pr[p].result # Success)
            => ~Exists(fs, Target(p))

\* C2: whenever a call of the direct fetcher returns 'success', the response
\* had status 200 and a Content-Type containing 'image', the target file
\* exists and holds the response body, and its pixels differ from the
\* placeholder's.
C2_SuccessMeansGenuineImage ==
    \A p \in Procs :
        (Done(p) /\ Fetched(p) /\ pr[p].result = Success)
            => /\ pr[p].response.status_code = 200
               /\ Contains(pr[p].response.ctype, <<"image">>)
               /\ Exists(fs, Target(p))
               /\ fs[Target(p)] = pr[p].response.body
               /\ Decodable(fs[Target(p)])
               /\ Exists(fs, PlaceholderPath)
               /\ Pixels(fs[Target(p)]) # Pixels(fs[PlaceholderPath])

C2_Witness ==
    /\ Done(1) /\ pr[1].result = Success
    /\ fs[Target(1)] = "imgA"

\* C3: a fetch of the sentinel 'unrecovered' returns the url-unrecovered
\* status and http.get is called zero times.
C3_SentinelWithoutGet ==
    \A p \in Procs :
        (Done(p) /\ Fetched(p) /\ pr[p].url = Sentinel)
            => /\ pr[p].result = UrlNotRecovered
               /\ pr[p].getCalls = 0

\* C4: the direct fetcher always returns a status and never raises; an
\* exception raised inside it is returned as the failure status carrying its
\* message, and 'Not Attempted' is never returned.
C4_ExceptionBecomesFailureStatus ==
    \A p \in Procs :
        (Done(p) /\ Fetched(p))
            => /\ pr[p].raised = ""
               /\ pr[p].result # NoResult
               /\ pr[p].result # NotAttempted
               /\ (pr[p].caught # "" => pr[p].result = Failure(pr[p].caught))

\* C5: download_imgur_album always returns a status and never lets an
\* exception out.
C5_AlbumNeverRaises ==
    \A p \in Procs :
        (Done(p) /\ pr[p].op = "album")
            => /\ pr[p].raised = ""
               /\ pr[p].result # NoResult

\* C6 as stated: every url with an album or gallery segment is classified
\* 'album', also when it contains i.imgur.com.
C6_AlbumSegmentAlwaysAlbum ==
    (out_class # "<not computed>" /\ AlbumMarker(in_url)) => out_class = "album"

\* C6 as amended: a url with an album or gallery segment is classified
\* 'album' when it does not contain i.imgur.com, and 'image' when it does.
C6_AlbumUnlessCdnMarker ==
    (out_class # "<not computed>" /\ AlbumMarker(in_url))
        => out_class = (IF CdnMarker(in_url) THEN "image" ELSE "album")

C6_Witness ==
    /\ AlbumMarker(in_url) /\ CdnMarker(in_url)
    /\ out_class = "image"

\* C7: the post resolver returns the conversion-failed status without any
\* fetch when the url has no '://imgur.'; otherwise it calls the fetcher
\* exactly once, with the url whose first '://imgur.' is replaced by
\* '://i.imgur.' and '.jpeg' appended, and returns the fetcher's status.
C7_PostResolver ==
    \A p \in Procs :
        pr[p].op = "post" =>
            LET u == pr[p].arg_url
                hits == Positions(u, PostPattern)
            IN  IF hits = {}
                THEN /\ Done(p)
                     /\ pr[p].result = FailedToConvert
                     /\ pr[p].fetches = <<>>
                     /\ pr[p].getCalls = 0 /\ pr[p].sends = 0
                     /\ pr[p].written = {}
                ELSE /\ pr[p].fetches =
                          << SubSeq(u, 1, Min(hits) - 1) \o PostReplacement
                               \o SubSeq(u, Min(hits) + Len(PostPattern), Len(u))
                               \o <<".", "jpeg">> >>
                     /\ pr[p].url = pr[p].fetches[1]
                     /\ Done(p) => /\ pr[p].result = pr[p].status
                                   /\ pr[p].result # FailedToConvert
                                   /\ pr[p].getCalls = 1

C7_Witness ==
    /\ Done(1) /\ pr[1].op = "post"
    /\ Cardinality(Positions(pr[1].arg_url, PostPattern)) = 2
    /\ pr[1].result = Success

\* C8: at most 4 attempts are made, and the returned status is decided by
\* the final response alone: 'Error <code>' whenever that response is not
\* 200, also when the retries ran out on a retryable code.
C8_FinalResponseDecides ==
    \A p \in Procs :
        (Done(p) /\ pr[p].sends > 0)
            => /\ pr[p].sends <= RetryTotal + 1
               /\ (pr[p].response.status_code \in Codes \ {200}
                     => pr[p].result = ErrorStatus(pr[p].response.status_code))

Alone(f) ==
    LET r == f.response
        ph == IF Exists(fs, PlaceholderPath) THEN fs[PlaceholderPath] ELSE ""
    IN  IF r.error # ""
          THEN [status |-> Failure(r.error), file |-> "<absent>"]
        ELSE IF r.status_code # 200
          THEN [status |-> ErrorStatus(r.status_code), file |-> "<absent>"]
        ELSE IF ~Contains(r.ctype, <<"image">>)
          THEN [status |-> NotAnImage, file |-> "<absent>"]
        ELSE IF ~r.readable
          THEN [status |-> Failure("ChunkedEncodingError"), file |-> ""]
        ELSE IF ~Decodable(r.body)
          THEN [status |-> Failure("UnidentifiedImageError"), file |-> r.body]
        ELSE IF ~Exists(fs, PlaceholderPath)
          THEN [status |-> Failure("FileNotFoundError"), file |-> r.body]
        ELSE IF Pixels(r.body) = Pixels(ph)
          THEN [status |-> PlaceholderDownloaded, file |-> "<absent>"]
        ELSE [status |-> Success, file |-> r.body]

FileState(path) == IF Exists(fs, path) THEN fs[path] ELSE "<absent>"

====
